---- MODULE Spec2Model ----
(***************************************************************************)
(* Model of the reconciliation loop of the ECommerceApplication operator   *)
(* (operator/controllers/ecommerceapplication_controller.go).              *)
(*                                                                         *)
(* The cluster's resource store is the shared state.  Every call of        *)
(* r.Get, r.Create and r.Update is one atomic step of the worker that runs *)
(* Reconcile; the steps of different workers interleave.                   *)
(***************************************************************************)
EXTENDS Integers, Sequences, FiniteSets, TLC

(***************************************************************************)
(* Bounds of the model.                                                    *)
(***************************************************************************)
\* spec.size ranges over 1..MaxSize
MaxSize == 2
\* store calls that fail with an error other than not-found, in a behaviour
MaxFaults == 1
\* changes made by the users of the cluster after the initial state
MaxChanges == 1
\* triggers the watch delivers in a behaviour
MaxRuns == 3
\* triggers delivered in a behaviour of the program with two workers
MaxConcurrentRuns == 2

Workers == {"w1", "w2"}

(***************************************************************************)
(* Identities.  A request names a DesiredStateObject by name and namespace.*)
(***************************************************************************)
NamespaceDefault == "default"

App1 == [name |-> "app1", namespace |-> "ns1"]
App2 == [name |-> "app2", namespace |-> "ns1"]
App3 == [name |-> "app3", namespace |-> "ns2"]

Requests == {App1, App2, App3}

\* The populations of tenants the model is run with: two tenants that share
\* a namespace, or two tenants in different namespaces.
Populations == {{App1, App2}, {App1, App3}}

Namespaces == {"ns1", "ns2"}

\* spec.PostgresSecretName of each DesiredStateObject (fixed by its author)
PostgresSecretNameOf(o) == IF o = App1 THEN "pg-a" ELSE "pg-b"

CredKey(o) == [name |-> PostgresSecretNameOf(o), namespace |-> o.namespace]

CredKeys == {CredKey(o) : o \in Requests}

Sizes == 1..MaxSize

\* A record that is not in the store.
Absent == [absent |-> TRUE]

(***************************************************************************)
(* encoding/base64, StdEncoding.DecodeString.  A text is a sequence of     *)
(* characters; the result is the decoded bytes (as far as decoding got)    *)
(* and whether decoding failed.                                            *)
(***************************************************************************)
Alphabet ==
  << "A", "B", "C", "D", "E", "F", "G", "H", "I", "J", "K", "L", "M",
     "N", "O", "P", "Q", "R", "S", "T", "U", "V", "W", "X", "Y", "Z",
     "a", "b", "c", "d", "e", "f", "g", "h", "i", "j", "k", "l", "m",
     "n", "o", "p", "q", "r", "s", "t", "u", "v", "w", "x", "y", "z",
     "0", "1", "2", "3", "4", "5", "6", "7", "8", "9", "+", "/" >>

PadChar == "="

IsB64(c) == \E i \in 1..Len(Alphabet) : Alphabet[i] = c

Sextet(c) == (CHOOSE i \in 1..Len(Alphabet) : Alphabet[i] = c) - 1

\* the 24 bits of a quantum whose missing characters count as zero
QuantumVal(q, n) ==
  LET d(i) == IF i <= n THEN Sextet(q[i]) ELSE 0
  IN  d(1) * 262144 + d(2) * 4096 + d(3) * 64 + d(4)

QuantumBytes(q, n) ==
  LET v == QuantumVal(q, n)
      all == << v \div 65536, (v \div 256) % 256, v % 256 >>
  IN  SubSeq(all, 1, n - 1)

RECURSIVE DecodeFrom(_, _)
DecodeFrom(s, acc) ==
  IF Len(s) = 0 THEN [bytes |-> acc, err |-> FALSE]
  ELSE IF Len(s) < 4 THEN [bytes |-> acc, err |-> TRUE]
  ELSE LET q == SubSeq(s, 1, 4)
           rest == SubSeq(s, 5, Len(s))
       IN  IF \A i \in 1..4 : IsB64(q[i])
             THEN DecodeFrom(rest, acc \o QuantumBytes(q, 4))
           ELSE IF /\ \A i \in 1..3 : IsB64(q[i])
                   /\ q[4] = PadChar
                   /\ rest = << >>
             THEN [bytes |-> acc \o QuantumBytes(q, 3), err |-> FALSE]
           ELSE IF /\ \A i \in 1..2 : IsB64(q[i])
                   /\ q[3] = PadChar
                   /\ q[4] = PadChar
                   /\ rest = << >>
             THEN [bytes |-> acc \o QuantumBytes(q, 2), err |-> FALSE]
           ELSE [bytes |-> acc, err |-> TRUE]

DecodeString(s) == DecodeFrom(s, << >>)

\* string(bytes): a capital letter as itself, any other byte by its number
Chr(b) ==
  IF b >= 65 /\ b <= 90 THEN Alphabet[b - 64]
  ELSE "\\" \o ToString(b)

RECURSIVE BytesToString(_)
BytesToString(bs) ==
  IF bs = << >> THEN "" ELSE Chr(Head(bs)) \o BytesToString(Tail(bs))

(***************************************************************************)
(* encoding/json, json.Unmarshal into PostgresBindingJSON.  The bytes      *)
(* under the key "connection" are either absent (nil), a text that is not  *)
(* JSON, or a JSON object, held as a function from member names to values. *)
(* Members the object lacks leave the zero value in the structure.         *)
(***************************************************************************)
NilBytes == [kind |-> "nil"]
NotJson == [kind |-> "text"]
Json(doc) == [kind |-> "json", value |-> doc]

EmptyObject == << >>

Member(obj, k, zero) == IF k \in DOMAIN obj THEN obj[k] ELSE zero

ZeroBinding ==
  [Postgres |->
     [Authentication |-> [Username |-> "", Password |-> ""],
      Certificate |-> [CertificateBase64 |-> << >>],
      Hosts |-> << >>,
      Database |-> ""]]

Binding(doc) ==
  LET pg == Member(doc, "postgres", EmptyObject)
      auth == Member(pg, "authentication", EmptyObject)
      cert == Member(pg, "certificate", EmptyObject)
      hosts == Member(pg, "hosts", << >>)
  IN  [Postgres |->
         [Authentication |->
            [Username |-> Member(auth, "username", ""),
             Password |-> Member(auth, "password", "")],
          Certificate |->
            [CertificateBase64 |-> Member(cert, "certificate_base64", << >>)],
          Hosts |->
            [i \in DOMAIN hosts |->
               [Hostname |-> Member(hosts[i], "hostname", ""),
                Port |-> Member(hosts[i], "port", 0)]],
          Database |-> Member(pg, "database", "")]]

\* a decoder that reports no error
UnmarshalMutant(bytes) ==
  [err |-> FALSE,
   data |-> IF bytes.kind = "json" THEN Binding(bytes.value) ELSE ZeroBinding]

Unmarshal(bytes) ==
  IF bytes.kind = "json"
    THEN [err |-> FALSE, data |-> Binding(bytes.value)]
    ELSE [err |-> TRUE, data |-> ZeroBinding]

(***************************************************************************)
(* The credential payloads the model is run with.                          *)
(***************************************************************************)
\* base64 of "CERT"
CertText == << "Q", "0", "V", "S", "V", "A", "=", "=" >>
\* base64 of "KEY"
KeyText == << "S", "0", "V", "Z" >>
\* not base64: an illegal character in the second quantum
BadCertText == << "Q", "0", "V", "S", "!", "A", "=", "=" >>

Doc(user, password, cert, hosts, database) ==
  [postgres |->
     [authentication |-> [username |-> user, password |-> password],
      certificate |-> [certificate_base64 |-> cert],
      hosts |-> hosts,
      database |-> database]]

HostA == [hostname |-> "db.local", port |-> 5432]
HostB == [hostname |-> "b", port |-> 2]

Bind1 == Json(Doc("u", "p", CertText, << HostA, HostB >>, "appdb"))
Bind2 == Json(Doc("u2", "p2", KeyText, << HostB >>, "db2"))
BindBadCert == Json(Doc("u", "p", BadCertText, << HostA >>, "appdb"))
BindNoHosts ==
  Json([postgres |->
          [authentication |-> [username |-> "u", password |-> "p"],
           certificate |-> [certificate_base64 |-> CertText],
           database |-> "appdb"]])

\* a credential record of the store: its Data, by key
Credential(bytes) ==
  IF bytes = NilBytes THEN [data |-> EmptyObject]
  ELSE [data |-> [connection |-> bytes]]

PayloadsOf(o) ==
  IF o = App1
    THEN {NilBytes, NotJson, Bind1, Bind2, BindBadCert, BindNoHosts}
    ELSE {Bind2}

(***************************************************************************)
(* The resources Reconcile builds.                                         *)
(***************************************************************************)
SecretNames ==
  << "postgres.username", "postgres.password",
     "postgres.certificate-data", "postgres.url" >>

SecretKeys ==
  << "POSTGRES_USERNAME", "POSTGRES_PASSWORD",
     "POSTGRES_CERTIFICATE_DATA", "POSTGRES_URL" >>

createSecret(name, namespace, key, value) ==
  [name |-> name, namespace |-> namespace, immutable |-> FALSE,
   stringData |-> [key |-> key, value |-> value], type |-> "Opaque"]

certDecoded(data) ==
  BytesToString(DecodeString(data.Postgres.Certificate.CertificateBase64).bytes)

\* a URL built from the endpoint listed last
postgresUrlMutant(data) ==
  "jdbc:postgresql://" \o data.Postgres.Hosts[Len(data.Postgres.Hosts)].Hostname \o ":"
     \o ToString(data.Postgres.Hosts[Len(data.Postgres.Hosts)].Port) \o "/"
     \o data.Postgres.Database
     \o "?sslmode=verify-full&sslrootcert=/cloud-postgres-cert"

postgresUrl(data) ==
  "jdbc:postgresql://" \o data.Postgres.Hosts[1].Hostname \o ":"
     \o ToString(data.Postgres.Hosts[1].Port) \o "/" \o data.Postgres.Database
     \o "?sslmode=verify-full&sslrootcert=/cloud-postgres-cert"

\* username and password taken for one another
secretValueSwapped(k, data) ==
  CASE k = 1 -> data.Postgres.Authentication.Password
    [] k = 2 -> data.Postgres.Authentication.Username
    [] k = 3 -> certDecoded(data)
    [] k = 4 -> postgresUrl(data)

\* the value of the k-th secret, k in 1..4
secretValue(k, data) ==
  CASE k = 1 -> data.Postgres.Authentication.Username
    [] k = 2 -> data.Postgres.Authentication.Password
    [] k = 3 -> certDecoded(data)
    [] k = 4 -> postgresUrl(data)

\* the second block keeps the value of the block it was copied from
targetSecretMutant(k, namespace, data) ==
  createSecret(SecretNames[k], namespace, SecretKeys[k],
               secretValue(IF k = 2 THEN 1 ELSE k, data))

targetSecret(k, namespace, data) ==
  createSecret(SecretNames[k], namespace, SecretKeys[k], secretValue(k, data))

createPostgresJob(namespace) ==
  [name |-> "pg", namespace |-> NamespaceDefault,
   ownerReferences |-> {},
   template |-> [name |-> "pg", namespace |-> namespace,
                 containers |-> << [image |-> "bash"],
                                   [args |-> "date; echo Hello from the Kubernetes cluster"] >>]]

labelsForMemcached(name) == [app |-> "memcached", memcached_cr |-> name]

\* lines 347-373, the literal dep; m is the DesiredStateObject as read, with
\* its identity
depLiteral(m) ==
  [name |-> m.name, namespace |-> m.namespace,
   replicas |-> m.size,
   selector |-> labelsForMemcached(m.name),
   template |-> [labels |-> labelsForMemcached(m.name),
                 containers |-> << [image |-> "quay.io/nheidloff/service-catalog:latest",
                                    name |-> "service-catalog",
                                    containerPort |-> 8081] >>],
   ownerReferences |-> {}]

\* line 375
SetControllerReference(m, obj) ==
  [obj EXCEPT !.ownerReferences =
     {[name |-> m.name, namespace |-> m.namespace, controller |-> TRUE]}]

\* a builder that sets no owner
deploymentForMemcachedMutant(m) == depLiteral(m)

deploymentForMemcached(m) == SetControllerReference(m, depLiteral(m))

(***************************************************************************)
(* ctrl.Result and the error Reconcile returns.                            *)
(***************************************************************************)
\* time.Second * 300
SecretWaitSeconds == 300
\* time.Minute
ResizeWaitSeconds == 60

Decision(requeue, after, err) ==
  [Requeue |-> requeue, RequeueAfter |-> after, err |-> err]

\* a result that asks for another run
DoneMutant == Decision(TRUE, 0, FALSE)
Done == Decision(FALSE, 0, FALSE)
\* a result without the requeue
RequeueNowMutant == Decision(FALSE, 0, FALSE)
RequeueNow == Decision(TRUE, 0, FALSE)
\* a wait of the wrong length
RequeueAfterWaitMutant == Decision(FALSE, ResizeWaitSeconds, FALSE)
RequeueAfterWait == Decision(FALSE, SecretWaitSeconds, FALSE)
RequeueAfterResize == Decision(FALSE, ResizeWaitSeconds, FALSE)
Error == Decision(FALSE, 0, TRUE)

Decisions == {Done, RequeueNow, RequeueAfterWait, RequeueAfterResize, Error}

\* no decision: the run has not returned, it panicked, or the process that
\* ran it was ended by the panic of another run
Running == [fault |-> "none"]
Panicked == [fault |-> "panic"]
Killed == [fault |-> "killed"]

(***************************************************************************)
(* State.                                                                  *)
(***************************************************************************)
VARIABLES
  tenants,      \* the DesiredStateObjects triggers are delivered for
  instances,    \* store: the DesiredStateObjects, by identity
  sources,      \* store: the CredentialSourceRecords, by name and namespace
  secrets,      \* store: the NormalizedSecrets, by name and namespace
  job,          \* store: the InitJobRecord pg of the default namespace
  deployments,  \* store: the WorkloadRecords, by name and namespace
  faults,       \* store calls that may still fail
  changes,      \* changes the users made so far
  runs,         \* triggers delivered so far
  pc,           \* the store call each worker makes next
  req,          \* req.NamespacedName of the run
  memcached,    \* the DesiredStateObject as read by the run
  data,         \* the PostgresBindingJSON parsed by the run
  k,            \* the secret the run is at, 1..4
  pgJob,        \* the job object of the run
  found,        \* the deployment read by the run
  result,       \* what the last run of the worker returned
  log,          \* the store calls of the run, in order
  calm,         \* nothing but the worker's own runs changed the store since
                \* its run began
  base,         \* the derived resources when the run began, for a run that
                \* follows an undisturbed run of the same request
  lastJobWriter, \* the request of the run that wrote the init job last
  origin        \* the derived resources before the first trigger

store == << instances, sources, secrets, job, deployments >>
derived == << secrets, job, deployments >>
locals == << runs, pc, req, memcached, data, k, pgJob, found, result, log >>
vars == << tenants, instances, sources, secrets, job, deployments, faults,
           changes, runs, pc, req, memcached, data, k, pgJob, found, result, log,
           calm, base, lastJobWriter, origin >>

SecretIds ==
  {[name |-> SecretNames[i], namespace |-> ns] : i \in 1..4, ns \in Namespaces}

Instance(o, size) ==
  [size |-> size, postgresSecretName |-> PostgresSecretNameOf(o)]

NoObject == [none |-> TRUE]

\* no run yet
Idle ==
  /\ changes = 0
  /\ runs = 0
  /\ pc = [w \in Workers |-> "idle"]
  /\ req = [w \in Workers |-> NoObject]
  /\ memcached = [w \in Workers |-> NoObject]
  /\ data = [w \in Workers |-> NoObject]
  /\ k = [w \in Workers |-> 0]
  /\ pgJob = [w \in Workers |-> NoObject]
  /\ found = [w \in Workers |-> NoObject]
  /\ result = [w \in Workers |-> Running]
  /\ log = [w \in Workers |-> << >>]
  /\ calm = [w \in Workers |-> FALSE]
  /\ base = [w \in Workers |-> NoObject]
  /\ lastJobWriter = NoObject
  /\ origin = derived

\* no derived resource yet, no run yet
Quiescent ==
  /\ secrets = [id \in SecretIds |-> Absent]
  /\ job = Absent
  /\ deployments = [o \in Requests |-> Absent]
  /\ Idle

Init ==
  /\ tenants \in Populations
  /\ instances = [o \in Requests |-> IF o \in tenants THEN Instance(o, 1) ELSE Absent]
  /\ sources \in [CredKeys -> {Absent} \cup {Credential(b) : b \in PayloadsOf(App1)}]
  /\ sources[CredKey(App1)] \in {Absent} \cup {Credential(b) : b \in PayloadsOf(App1)}
  /\ \A o \in Requests \ {App1} :
        sources[CredKey(o)] = IF o \in tenants THEN Credential(Bind2) ELSE Absent
  /\ faults = MaxFaults
  /\ Quiescent

(***************************************************************************)
(* Helpers of the actions.                                                 *)
(***************************************************************************)
Call(op, kind, key, res, obj, old) ==
  [op |-> op, kind |-> kind, key |-> key, res |-> res, obj |-> obj, old |-> old]

Logged(w, call) == log' = [log EXCEPT ![w] = Append(@, call)]

Goto(w, p) == pc' = [pc EXCEPT ![w] = p]

\* a store call may fail with an error that is not not-found
CanFail == faults > 0
Fails == faults' = faults - 1

\* a write returns an error: the store refuses it (the object exists already,
\* is not there, or was written since it was read), or the store call fails
Refused(rejected) ==
  /\ rejected \/ CanFail
  /\ faults' = IF rejected THEN faults ELSE faults - 1

\* return ctrl.Result, err: the run is over and its locals are gone
Returns(w, d) ==
  /\ pc' = [pc EXCEPT ![w] = "idle"]
  /\ result' = [result EXCEPT ![w] = d]
  /\ memcached' = [memcached EXCEPT ![w] = NoObject]
  /\ data' = [data EXCEPT ![w] = NoObject]
  /\ k' = [k EXCEPT ![w] = 0]

Return(w, d) ==
  /\ Returns(w, d)
  /\ found' = [found EXCEPT ![w] = NoObject]

InFlight(w) == pc[w] # "idle"

\* an object read from the store carries the version it was read at; a write
\* of the stored object by another run makes that version an old one
Read(obj) == [object |-> obj, resourceVersion |-> "read"]
Built(obj) == [object |-> obj, resourceVersion |-> ""]
Outdated(copy) ==
  IF copy # NoObject /\ copy.resourceVersion = "read"
    THEN [copy EXCEPT !.resourceVersion = "stale"]
    ELSE copy

\* the bookkeeping of calm and base in a step of worker w (or of a user,
\* who is no worker)
Watch(w) ==
  /\ calm' = [v \in Workers |-> calm[v] /\ (v = w \/ store' = store)]
  /\ base' = [v \in Workers |-> IF calm'[v] THEN base[v] ELSE NoObject]
  /\ UNCHANGED origin

NoStoreError(calls) == \A i \in DOMAIN calls : calls[i].res # "err"

NamespacedName(name, namespace) == [name |-> name, namespace |-> namespace]

(***************************************************************************)
(* The trigger: the watch hands a request to an idle worker (line 123).    *)
(***************************************************************************)
\* the entry of Reconcile, but for the count of the triggers
Begin(w, r) ==
  /\ pc[w] = "idle"
  /\ r \in tenants
  /\ pc' = [pc EXCEPT ![w] = "get_instance"]
  /\ req' = [req EXCEPT ![w] = r]
  /\ result' = [result EXCEPT ![w] = Running]
  /\ log' = [log EXCEPT ![w] = << >>]
  /\ calm' = [calm EXCEPT ![w] = TRUE]
  /\ base' = [base EXCEPT ![w] =
                IF /\ result[w] \in Decisions \cup {Panicked}
                   /\ req[w] = r
                   /\ calm[w]
                   /\ NoStoreError(log[w])
                  THEN derived ELSE NoObject]
  /\ UNCHANGED << tenants, store, faults, changes, memcached, data, k, pgJob, found,
                  lastJobWriter, origin >>

Reconcile(w, r) ==
  /\ runs < MaxRuns
  /\ runs' = runs + 1
  /\ Begin(w, r)

(***************************************************************************)
(* Lines 126-140: fetch the DesiredStateObject.                            *)
(***************************************************************************)
GetInstance(w) ==
  /\ pc[w] = "get_instance"
  /\ LET key == req[w]
          cur == instances[key]
     IN  \/ /\ cur # Absent
            /\ memcached' = [memcached EXCEPT ![w] =
                  [name |-> key.name, namespace |-> key.namespace,
                   size |-> cur.size,
                   postgresSecretName |-> cur.postgresSecretName]]
            /\ Goto(w, "get_source")
            /\ Logged(w, Call("get", "instance", key, "ok", cur, cur))
            /\ UNCHANGED << faults, data, k, found, result >>
         \/ /\ cur = Absent
            /\ Return(w, Done)
            /\ Logged(w, Call("get", "instance", key, "notfound", Absent, cur))
            /\ UNCHANGED faults
         \/ /\ CanFail
            /\ Fails
            /\ Return(w, Error)
            /\ Logged(w, Call("get", "instance", key, "err", Absent, cur))
  /\ UNCHANGED << tenants, store, changes, runs, req, pgJob >>
  /\ UNCHANGED lastJobWriter
  /\ Watch(w)

(***************************************************************************)
(* Lines 142-157: fetch the CredentialSourceRecord and parse its payload.  *)
(***************************************************************************)
GetSource(w) ==
  /\ pc[w] = "get_source"
  /\ LET key == NamespacedName(memcached[w].postgresSecretName, memcached[w].namespace)
          cur == sources[key]
     IN  \/ /\ cur = Absent
            /\ Return(w, RequeueAfterWait)
            /\ Logged(w, Call("get", "source", key, "notfound", Absent, cur))
            /\ UNCHANGED faults
         \/ /\ CanFail
            /\ Fails
            /\ Return(w, Error)
            /\ Logged(w, Call("get", "source", key, "err", Absent, cur))
         \/ /\ cur # Absent
            /\ Logged(w, Call("get", "source", key, "ok", cur, cur))
            /\ UNCHANGED faults
            /\ LET u == Unmarshal(Member(cur.data, "connection", NilBytes))
               IN  \/ /\ u.err
                      /\ Return(w, Error)
                   \/ /\ ~u.err
                      /\ data' = [data EXCEPT ![w] = u.data]
                      /\ k' = [k EXCEPT ![w] = 1]
                      /\ Goto(w, "get_secret")
                      /\ UNCHANGED << memcached, found, result >>
  /\ UNCHANGED << tenants, store, changes, runs, req, pgJob >>
  /\ UNCHANGED lastJobWriter
  /\ Watch(w)

(***************************************************************************)
(* Lines 159-253: the four secrets, each looked up, then created or        *)
(* updated.  A lookup that fails with another error than not-found falls   *)
(* into the else branch, the update.                                       *)
(***************************************************************************)
hostsEmpty(w) == data[w].Postgres.Hosts = << >>

SecretId(w) == NamespacedName(SecretNames[k[w]], memcached[w].namespace)

GetSecret(w) ==
  /\ pc[w] = "get_secret"
  /\ ~(k[w] = 4 /\ hostsEmpty(w))
  /\ LET key == SecretId(w)
          cur == secrets[key]
     IN  \/ /\ cur = Absent
            /\ Goto(w, "create_secret")
            /\ Logged(w, Call("get", "secret", key, "notfound", Absent, cur))
            /\ UNCHANGED faults
         \/ /\ cur # Absent
            /\ Goto(w, "update_secret")
            /\ Logged(w, Call("get", "secret", key, "ok", cur, cur))
            /\ UNCHANGED faults
         \/ /\ CanFail
            /\ Fails
            /\ Goto(w, "update_secret")
            /\ Logged(w, Call("get", "secret", key, "err", Absent, cur))
  /\ UNCHANGED << tenants, store, changes, runs, req, memcached, data, k, pgJob, found, result >>
  /\ UNCHANGED lastJobWriter
  /\ Watch(w)

\* a presence check that returns an error
UrlError(w) ==
  /\ pc[w] = "get_secret"
  /\ k[w] = 4
  /\ hostsEmpty(w)
  /\ Return(w, Error)
  /\ UNCHANGED << tenants, store, faults, changes, runs, req, pgJob, log >>
  /\ UNCHANGED lastJobWriter
  /\ Watch(w)

\* line 233: data.Postgres.Hosts[0] of an empty sequence.  The panic ends
\* the process, and with it the runs of the other workers.
UrlPanic(w) ==
  /\ pc[w] = "get_secret"
  /\ k[w] = 4
  /\ hostsEmpty(w)
  /\ pc' = [v \in Workers |-> "idle"]
  /\ result' = [v \in Workers |->
                  IF v = w THEN Panicked
                  ELSE IF InFlight(v) THEN Killed ELSE result[v]]
  /\ memcached' = [v \in Workers |-> NoObject]
  /\ data' = [v \in Workers |-> NoObject]
  /\ k' = [v \in Workers |-> 0]
  /\ pgJob' = [v \in Workers |-> NoObject]
  /\ found' = [v \in Workers |-> NoObject]
  /\ UNCHANGED << tenants, store, faults, changes, runs, req, log >>
  /\ UNCHANGED lastJobWriter
  /\ Watch(w)

\* a run that goes on to the init job after the third secret
AfterSecretMutant(w) ==
  IF k[w] < 3
    THEN /\ k' = [k EXCEPT ![w] = @ + 1]
         /\ Goto(w, "get_secret")
    ELSE /\ k' = [k EXCEPT ![w] = 0]
         /\ Goto(w, "get_job")

\* after the write of the k-th secret
AfterSecret(w) ==
  IF k[w] < 4
    THEN /\ k' = [k EXCEPT ![w] = @ + 1]
         /\ Goto(w, "get_secret")
    ELSE /\ k' = [k EXCEPT ![w] = 0]
         /\ Goto(w, "get_job")

CreateSecret(w) ==
  /\ pc[w] = "create_secret"
  /\ LET key == SecretId(w)
          cur == secrets[key]
          obj == targetSecret(k[w], memcached[w].namespace, data[w])
     IN  \/ /\ cur = Absent
            /\ secrets' = [secrets EXCEPT ![key] = obj]
            /\ AfterSecret(w)
            /\ Logged(w, Call("create", "secret", key, "ok", obj, cur))
            /\ UNCHANGED << faults, memcached, data, found, result >>
         \/ /\ Refused(cur # Absent)
            /\ Return(w, Error)
            /\ Logged(w, Call("create", "secret", key, "err", obj, cur))
            /\ UNCHANGED secrets
  /\ UNCHANGED << tenants, instances, sources, job, deployments, changes, runs, req, pgJob >>
  /\ UNCHANGED lastJobWriter
  /\ Watch(w)

UpdateSecret(w) ==
  /\ pc[w] = "update_secret"
  /\ LET key == SecretId(w)
          cur == secrets[key]
          obj == targetSecret(k[w], memcached[w].namespace, data[w])
     IN  \/ /\ cur # Absent
            /\ secrets' = [secrets EXCEPT ![key] = obj]
            /\ AfterSecret(w)
            /\ Logged(w, Call("update", "secret", key, "ok", obj, cur))
            /\ UNCHANGED << faults, memcached, data, found, result >>
         \/ /\ Refused(cur = Absent)
            /\ Return(w, Error)
            /\ Logged(w, Call("update", "secret", key, "err", obj, cur))
            /\ UNCHANGED secrets
  /\ UNCHANGED << tenants, instances, sources, job, deployments, changes, runs, req, pgJob >>
  /\ UNCHANGED lastJobWriter
  /\ Watch(w)

(***************************************************************************)
(* Lines 259-280: the init job.  The lookup reads into pgJob itself, so in *)
(* the update branch pgJob holds what the store returned.                  *)
(***************************************************************************)
JobKey == NamespacedName("pg", NamespaceDefault)

GetJob(w) ==
  /\ pc[w] = "get_job"
  /\ LET built == createPostgresJob(memcached[w].namespace)
     IN  \/ /\ job = Absent
            /\ pgJob' = [pgJob EXCEPT ![w] = Built(built)]
            /\ Goto(w, "create_job")
            /\ Logged(w, Call("get", "job", JobKey, "notfound", Absent, job))
            /\ UNCHANGED faults
         \/ /\ job # Absent
            /\ pgJob' = [pgJob EXCEPT ![w] = Read(job)]
            /\ Goto(w, "update_job")
            /\ Logged(w, Call("get", "job", JobKey, "ok", job, job))
            /\ UNCHANGED faults
         \/ /\ CanFail
            /\ Fails
            /\ pgJob' = [pgJob EXCEPT ![w] = Built(built)]
            /\ Goto(w, "update_job")
            /\ Logged(w, Call("get", "job", JobKey, "err", Absent, job))
  /\ UNCHANGED << tenants, store, changes, runs, req, memcached, data, k, found, result >>
  /\ UNCHANGED lastJobWriter
  /\ Watch(w)

\* the job is written by w: when the write changes the stored object, the
\* copies the other runs read are old now
JobWritten(w, obj) ==
  pgJob' = [v \in Workers |->
              IF v = w THEN NoObject
              ELSE IF obj # job THEN Outdated(pgJob[v]) ELSE pgJob[v]]

JobDropped(w) == pgJob' = [pgJob EXCEPT ![w] = NoObject]

CreateJob(w) ==
  /\ pc[w] = "create_job"
  /\ LET obj == pgJob[w].object
     IN  \/ /\ job = Absent
            /\ job' = obj
            /\ JobWritten(w, obj)
            /\ Goto(w, "get_deployment")
            /\ Logged(w, Call("create", "job", JobKey, "ok", obj, job))
            /\ lastJobWriter' = req[w]
            /\ UNCHANGED << faults, memcached, data, k, found, result >>
         \/ /\ Refused(job # Absent)
            /\ JobDropped(w)
            /\ Return(w, Error)
            /\ Logged(w, Call("create", "job", JobKey, "err", obj, job))
            /\ UNCHANGED << job, lastJobWriter >>
  /\ UNCHANGED << tenants, instances, sources, secrets, deployments, changes, runs, req >>
  /\ Watch(w)

UpdateJob(w) ==
  /\ pc[w] = "update_job"
  /\ LET obj == pgJob[w].object
          accepted == job # Absent /\ pgJob[w].resourceVersion # "stale"
     IN  \/ /\ accepted
            /\ job' = obj
            /\ JobWritten(w, obj)
            /\ Goto(w, "get_deployment")
            /\ Logged(w, Call("update", "job", JobKey, "ok", obj, job))
            /\ lastJobWriter' = req[w]
            /\ UNCHANGED << faults, memcached, data, k, found, result >>
         \/ /\ Refused(~accepted)
            /\ JobDropped(w)
            /\ Return(w, Error)
            /\ Logged(w, Call("update", "job", JobKey, "err", obj, job))
            /\ UNCHANGED << job, lastJobWriter >>
  /\ UNCHANGED << tenants, instances, sources, secrets, deployments, changes, runs, req >>
  /\ Watch(w)

(***************************************************************************)
(* Lines 282-314 and 339: the workload and its replica count.              *)
(***************************************************************************)
DeploymentKey(w) == NamespacedName(memcached[w].name, memcached[w].namespace)

\* a check that always finds drift
needsResizeAlways(dep, size) == TRUE

\* a check that only scales down
needsResizeMutant(dep, size) == dep.replicas > size

\* line 303: *found.Spec.Replicas != size
needsResize(dep, size) == dep.replicas # size

\* an update that drops the owner
resizedOrphan(dep, size) == [dep EXCEPT !.replicas = size, !.ownerReferences = {}]

\* an update that forgets the assignment
resizedUnchanged(dep, size) == dep

\* an update that adds the size to the count
resizedMutant(dep, size) == [dep EXCEPT !.replicas = @ + size]

\* line 304: found.Spec.Replicas = &size
resized(dep, size) == [dep EXCEPT !.replicas = size]

GetDeployment(w) ==
  /\ pc[w] = "get_deployment"
  /\ LET key == DeploymentKey(w)
          cur == deployments[key]
     IN  \/ /\ cur = Absent
            /\ Goto(w, "create_deployment")
            /\ Logged(w, Call("get", "deployment", key, "notfound", Absent, cur))
            /\ UNCHANGED << faults, memcached, data, k, found, result >>
         \/ /\ CanFail
            /\ Fails
            /\ Return(w, Error)
            /\ Logged(w, Call("get", "deployment", key, "err", Absent, cur))
         \/ /\ cur # Absent
            /\ needsResize(cur, memcached[w].size)
            /\ found' = [found EXCEPT ![w] = Read(cur)]
            /\ Goto(w, "update_deployment")
            /\ Logged(w, Call("get", "deployment", key, "ok", cur, cur))
            /\ UNCHANGED << faults, memcached, data, k, result >>
         \/ /\ cur # Absent
            /\ ~needsResize(cur, memcached[w].size)
            /\ Return(w, Done)
            /\ Logged(w, Call("get", "deployment", key, "ok", cur, cur))
            /\ UNCHANGED faults
  /\ UNCHANGED << tenants, store, changes, runs, req, pgJob >>
  /\ UNCHANGED lastJobWriter
  /\ Watch(w)

CreateDeployment(w) ==
  /\ pc[w] = "create_deployment"
  /\ LET key == DeploymentKey(w)
          cur == deployments[key]
          dep == deploymentForMemcached(memcached[w])
     IN  \/ /\ cur = Absent
            /\ deployments' = [deployments EXCEPT ![key] = dep]
            /\ Return(w, RequeueNow)
            /\ Logged(w, Call("create", "deployment", key, "ok", dep, cur))
            /\ UNCHANGED faults
         \/ /\ Refused(cur # Absent)
            /\ Return(w, Error)
            /\ Logged(w, Call("create", "deployment", key, "err", dep, cur))
            /\ UNCHANGED deployments
  /\ UNCHANGED << tenants, instances, sources, secrets, job, changes, runs, req, pgJob >>
  /\ UNCHANGED lastJobWriter
  /\ Watch(w)

\* the deployment key is written: the copies other runs read of it are old
DeploymentWritten(w, key) ==
  found' = [v \in Workers |->
              IF v = w THEN NoObject
              ELSE IF found[v] # NoObject
                      /\ NamespacedName(found[v].object.name, found[v].object.namespace) = key
                     THEN Outdated(found[v])
                     ELSE found[v]]

UpdateDeployment(w) ==
  /\ pc[w] = "update_deployment"
  /\ LET key == DeploymentKey(w)
          cur == deployments[key]
          dep == resized(found[w].object, memcached[w].size)
          accepted == cur # Absent /\ found[w].resourceVersion # "stale"
     IN  \/ /\ accepted
            /\ deployments' = [deployments EXCEPT ![key] = dep]
            /\ DeploymentWritten(w, key)
            /\ Returns(w, RequeueAfterResize)
            /\ Logged(w, Call("update", "deployment", key, "ok", dep, cur))
            /\ UNCHANGED faults
         \/ /\ Refused(~accepted)
            /\ Return(w, Error)
            /\ Logged(w, Call("update", "deployment", key, "err", dep, cur))
            /\ UNCHANGED deployments
  /\ UNCHANGED << tenants, instances, sources, secrets, job, changes, runs, req, pgJob >>
  /\ UNCHANGED lastJobWriter
  /\ Watch(w)

(***************************************************************************)
(* The users of the cluster: they write the DesiredStateObjects, and the   *)
(* credential operator provisions the CredentialSourceRecords.             *)
(***************************************************************************)
CanChange == changes < MaxChanges
Changes == changes' = changes + 1

ApplyInstance(o, n) ==
  /\ CanChange
  /\ o \in tenants
  /\ n \in Sizes
  /\ instances[o] # Instance(o, n)
  /\ instances' = [instances EXCEPT ![o] = Instance(o, n)]
  /\ Changes
  /\ UNCHANGED << tenants, sources, secrets, job, deployments, faults, locals >>
  /\ UNCHANGED lastJobWriter
  /\ Watch("user")

DeleteInstance(o) ==
  /\ CanChange
  /\ o \in tenants
  /\ instances[o] # Absent
  /\ instances' = [instances EXCEPT ![o] = Absent]
  /\ Changes
  /\ UNCHANGED << tenants, sources, secrets, job, deployments, faults, locals >>
  /\ UNCHANGED lastJobWriter
  /\ Watch("user")

ProvisionSource(o, bytes) ==
  /\ CanChange
  /\ o \in tenants
  /\ bytes \in PayloadsOf(o)
  /\ sources[CredKey(o)] # Credential(bytes)
  /\ sources' = [sources EXCEPT ![CredKey(o)] = Credential(bytes)]
  /\ Changes
  /\ UNCHANGED << tenants, instances, secrets, job, deployments, faults, locals >>
  /\ UNCHANGED lastJobWriter
  /\ Watch("user")

(***************************************************************************)
(* The specifications.                                                     *)
(*                                                                         *)
(* SetupWithManager (lines 395-400) sets no controller options, so the     *)
(* manager runs one worker: Spec is the program with the runs of Reconcile *)
(* one after the other.  SpecConcurrent is the program with two workers,   *)
(* as the host may be set up to run it.                                    *)
(***************************************************************************)
Step(w) ==
  \/ GetInstance(w)
  \/ GetSource(w)
  \/ GetSecret(w)
  \/ UrlPanic(w)
  \/ CreateSecret(w)
  \/ UpdateSecret(w)
  \/ GetJob(w)
  \/ CreateJob(w)
  \/ UpdateJob(w)
  \/ GetDeployment(w)
  \/ CreateDeployment(w)
  \/ UpdateDeployment(w)

Trigger(w) == \E r \in Requests : Reconcile(w, r)

User ==
  \/ \E o \in Requests, n \in Sizes : ApplyInstance(o, n)
  \/ \E o \in Requests : DeleteInstance(o)
  \/ \E o \in Requests, b \in PayloadsOf(App1) : ProvisionSource(o, b)

Next ==
  \/ Trigger("w1")
  \/ Step("w1")
  \/ User

Spec == Init /\ [][Next]_vars

\* a store that does not fail, and tenants whose credentials parse
ParsedInit ==
  /\ tenants \in Populations
  /\ instances = [o \in Requests |-> IF o \in tenants THEN Instance(o, 1) ELSE Absent]
  /\ sources \in [CredKeys -> {Absent} \cup {Credential(b) : b \in PayloadsOf(App1)}]
  /\ sources[CredKey(App1)] \in {Credential(Bind1), Credential(BindNoHosts)}
  /\ \A o \in Requests \ {App1} :
        sources[CredKey(o)] = IF o \in tenants THEN Credential(Bind2) ELSE Absent
  /\ faults = 0

InitConcurrent ==
  /\ ParsedInit
  /\ Quiescent

NextConcurrent ==
  \/ \E w \in Workers : runs < MaxConcurrentRuns /\ Trigger(w)
  \/ \E w \in Workers : Step(w)
  \/ \E o \in Requests, n \in Sizes : ApplyInstance(o, n)

SpecConcurrent == InitConcurrent /\ [][NextConcurrent]_vars

(***************************************************************************)
(* Two runs for one and the same DesiredStateObject, App1, which overlap   *)
(* in every way or follow one another, on a store that does not fail and   *)
(* that nobody else changes.  They start with no derived resource, or with *)
(* the resources a run left when App1 had size 1 and the credential Bind2. *)
(***************************************************************************)
Unprovisioned ==
  << [id \in SecretIds |-> Absent], Absent, [o \in Requests |-> Absent] >>

\* what a run of Reconcile for o that meets no error leaves for o
Settled(o, size, bytes) ==
  LET d == Unmarshal(bytes).data
      m == [name |-> o.name, namespace |-> o.namespace, size |-> size,
            postgresSecretName |-> PostgresSecretNameOf(o)]
  IN  << [id \in SecretIds |->
            IF id.namespace = o.namespace
              THEN targetSecret(CHOOSE n \in 1..4 : SecretNames[n] = id.name,
                                o.namespace, d)
              ELSE Absent],
         createPostgresJob(o.namespace),
         [r \in Requests |-> IF r = o THEN deploymentForMemcached(m) ELSE Absent] >>

InitSameObject ==
  /\ tenants = {App1, App2}
  /\ \E n \in Sizes :
       instances = [o \in Requests |->
                      IF o = App1 THEN Instance(o, n)
                      ELSE IF o = App2 THEN Instance(o, 1) ELSE Absent]
  /\ \E b \in {Bind1, Bind2, BindNoHosts} :
       sources = [c \in CredKeys |->
                    IF c = CredKey(App1) THEN Credential(b)
                    ELSE IF c = CredKey(App2) THEN Credential(Bind2) ELSE Absent]
  /\ faults = 0
  /\ \E d \in {Unprovisioned, Settled(App1, 1, Bind2)} :
       /\ secrets = d[1]
       /\ job = d[2]
       /\ deployments = d[3]
  /\ Idle

NextSameObject ==
  \/ \E w \in Workers : runs < MaxConcurrentRuns /\ Reconcile(w, App1)
  \/ \E w \in Workers : Step(w)

SpecSameObject == InitSameObject /\ [][NextSameObject]_vars

(***************************************************************************)
(* The triggers as the controller of SetupWithManager delivers them, one   *)
(* reconcile at a time, for App1: when the process starts, after a run     *)
(* that asked to be requeued, returned an error or panicked, and when the  *)
(* DesiredStateObject is no longer what the last run read.  The store does *)
(* not fail.  A trigger that is due is delivered, and a run goes on to its *)
(* end.                                                                    *)
(***************************************************************************)
Pending(w, r) ==
  IF log[w] = << >>
    THEN TRUE
    ELSE result[w] # Done \/ instances[r] # log[w][1].old

Redeliver(w, r) ==
  /\ Pending(w, r)
  /\ Begin(w, r)
  /\ UNCHANGED runs

LiveStart ==
  /\ tenants = {App1, App2}
  /\ \E n \in Sizes :
       instances = [o \in Requests |->
                      IF o = App1 THEN Instance(o, n)
                      ELSE IF o = App2 THEN Instance(o, 1) ELSE Absent]
  /\ \E c \in {Absent} \cup {Credential(b) : b \in PayloadsOf(App1)} :
       sources = [i \in CredKeys |->
                    IF i = CredKey(App1) THEN c
                    ELSE IF i = CredKey(App2) THEN Credential(Bind2) ELSE Absent]
  /\ \E d \in {Unprovisioned, Settled(App1, 1, Bind2)} :
       /\ secrets = d[1]
       /\ job = d[2]
       /\ deployments = d[3]
  /\ Idle

InitLive == faults = 0 /\ LiveStart

\* the same with a store that fails MaxFaults times
InitTransient == faults = MaxFaults /\ LiveStart

NextLive ==
  \/ Redeliver("w1", App1)
  \/ Step("w1")
  \/ \E n \in Sizes : ApplyInstance(App1, n)
  \/ \E b \in PayloadsOf(App1) : ProvisionSource(App1, b)

SpecLive ==
  /\ InitLive
  /\ [][NextLive]_vars
  /\ WF_vars(Redeliver("w1", App1))
  /\ WF_vars(Step("w1"))

SpecTransient ==
  /\ InitTransient
  /\ [][NextLive]_vars
  /\ WF_vars(Redeliver("w1", App1))
  /\ WF_vars(Step("w1"))

(***************************************************************************)
(* What a run did, read from its log.                                      *)
(***************************************************************************)
\* the run of w is over and returned a ctrl.Result and an error
Returned(w) == pc[w] = "idle" /\ "err" \in DOMAIN result[w]

Calls(w) == DOMAIN log[w]

IsCall(c, op, kind) == c.op = op /\ c.kind = kind

IsWrite(c) == c.op \in {"create", "update"}

NoWrite(w) == \A i \in Calls(w) : ~IsWrite(log[w][i])

\* spec.size as the run read it (its first call fetched the object)
SizeRead(w) == log[w][1].obj.size

(***************************************************************************)
(* C1.  Wait property: a run that finds no CredentialSourceRecord for its  *)
(* DesiredStateObject returns RequeueAfter 300 s and no error, and has     *)
(* written nothing: no secret, no init job, no workload.  This holds for   *)
(* every run, so for every trigger while the record is missing.            *)
(***************************************************************************)
SourceMissing(w) ==
  \E i \in Calls(w) :
    /\ IsCall(log[w][i], "get", "source")
    /\ log[w][i].res = "notfound"
    /\ log[w][i].old = Absent

C1_WaitProperty ==
  \A w \in Workers :
    (pc[w] = "idle" /\ SourceMissing(w)) =>
      /\ result[w] = [Requeue |-> FALSE, RequeueAfter |-> 300, err |-> FALSE]
      /\ NoWrite(w)
      /\ Len(log[w]) = 2

\* a second run in a row waits for the record
C1_Witness ==
  /\ pc["w1"] = "idle"
  /\ SourceMissing("w1")
  /\ runs >= 2
  /\ secrets = [id \in SecretIds |-> Absent]

(***************************************************************************)
(* C2.  Replica convergence step: a run that reads a WorkloadRecord with   *)
(* replica count r goes on, when r differs from spec.size, to update the   *)
(* record with replica count spec.size as its last call, and a successful  *)
(* update leaves that count in the store and returns RequeueAfter 1 min;   *)
(* when r equals spec.size the read is the last call of the run, which     *)
(* writes no workload and returns Done.                                    *)
(***************************************************************************)
C2_ReplicaStep ==
  \A w \in Workers : \A i \in Calls(w) :
    LET c == log[w][i]
        n == Len(log[w])
    IN  (Returned(w) /\ IsCall(c, "get", "deployment") /\ c.res = "ok") =>
          IF c.obj.replicas # SizeRead(w)
            THEN /\ i + 1 = n
                 /\ IsCall(log[w][n], "update", "deployment")
                 /\ log[w][n].key = c.key
                 /\ log[w][n].obj.replicas = SizeRead(w)
                 /\ log[w][n].res = "ok" =>
                      /\ result[w] = [Requeue |-> FALSE, RequeueAfter |-> 60, err |-> FALSE]
                      /\ deployments[c.key].replicas = SizeRead(w)
                 /\ log[w][n].res # "ok" =>
                      result[w] = [Requeue |-> FALSE, RequeueAfter |-> 0, err |-> TRUE]
            ELSE /\ i = n
                 /\ result[w] = [Requeue |-> FALSE, RequeueAfter |-> 0, err |-> FALSE]
                 /\ \A j \in Calls(w) : ~(IsWrite(log[w][j]) /\ log[w][j].kind = "deployment")

\* a run has scaled a workload from 1 to 2 replicas
C2_Witness ==
  \E i \in Calls("w1") :
    /\ Returned("w1")
    /\ IsCall(log["w1"][i], "update", "deployment")
    /\ log["w1"][i].res = "ok"
    /\ log["w1"][i].old.replicas = 1
    /\ deployments[log["w1"][i].key].replicas = 2

(***************************************************************************)
(* C3.  Workload creation and ownership: a run that finds no WorkloadRecord*)
(* under the name and namespace of its DesiredStateObject goes on to       *)
(* create one, as its last call, with replica count spec.size, with the    *)
(* labels app = memcached and memcached_cr = <name> as its selector and on *)
(* its pods, and with an ownership reference to the DesiredStateObject; a  *)
(* successful create returns Requeue without error.  No InitJobRecord a    *)
(* run writes, and none in the store, carries an ownership reference.      *)
(***************************************************************************)
C3_WorkloadCreation ==
  /\ \A w \in Workers : \A i \in Calls(w) :
       LET c == log[w][i]
           n == Len(log[w])
       IN  /\ (Returned(w) /\ IsCall(c, "get", "deployment") /\ c.res = "notfound") =>
                /\ i + 1 = n
                /\ IsCall(log[w][n], "create", "deployment")
                /\ log[w][n].key = req[w]
                /\ log[w][n].obj.name = req[w].name
                /\ log[w][n].obj.namespace = req[w].namespace
                /\ log[w][n].obj.replicas = SizeRead(w)
                /\ log[w][n].obj.selector = [app |-> "memcached", memcached_cr |-> req[w].name]
                /\ log[w][n].obj.template.labels = [app |-> "memcached", memcached_cr |-> req[w].name]
                /\ \E ref \in log[w][n].obj.ownerReferences :
                     ref.name = req[w].name /\ ref.namespace = req[w].namespace
                /\ log[w][n].res = "ok" =>
                     /\ result[w] = [Requeue |-> TRUE, RequeueAfter |-> 0, err |-> FALSE]
                     /\ deployments[req[w]] = log[w][n].obj
           /\ (IsWrite(c) /\ c.kind = "job") => c.obj.ownerReferences = {}
  /\ job # Absent => job.ownerReferences = {}

\* a run has created the workload of its DesiredStateObject, and the init
\* job is in the store
C3_Witness ==
  /\ Returned("w1")
  /\ Len(log["w1"]) > 0
  /\ IsCall(log["w1"][Len(log["w1"])], "create", "deployment")
  /\ log["w1"][Len(log["w1"])].res = "ok"
  /\ deployments[req["w1"]] # Absent
  /\ job # Absent

(***************************************************************************)
(* C4.  Idempotence: when a run of worker w on a DesiredStateObject has    *)
(* returned (or panicked) without a store error, and the next run of w is  *)
(* on the same object, and nobody but w has changed the store from the     *)
(* start of the first run on, then all through the second run, as long as  *)
(* it meets no store error, the secrets, the init job and the workloads    *)
(* are what the first run left, and every write of the second run writes   *)
(* the content that is stored already.                                     *)
(* base[w] is the derived resource set at the start of such a second run.  *)
(***************************************************************************)
C4_Idempotence ==
  \A w \in Workers :
    (base[w] # NoObject /\ NoStoreError(log[w])) =>
      /\ derived = base[w]
      /\ \A i \in Calls(w) : IsWrite(log[w][i]) => log[w][i].obj = log[w][i].old

\* a second run in a row has returned after writing the four secrets and
\* the init job again, the first one having created the workload
C4_Witness ==
  /\ Returned("w1")
  /\ base["w1"] # NoObject
  /\ NoStoreError(log["w1"])
  /\ result["w1"] = [Requeue |-> FALSE, RequeueAfter |-> 0, err |-> FALSE]
  /\ Cardinality({i \in Calls("w1") : IsWrite(log["w1"][i])}) = 5
  /\ deployments[req["w1"]] # Absent

(***************************************************************************)
(* C5.  Malformed payload: a run that reads a CredentialSourceRecord whose *)
(* payload under the key connection is missing, empty or no structured     *)
(* data returns Error at once and writes nothing: no secret, no init job,  *)
(* no workload.                                                            *)
(***************************************************************************)
Malformed(w) ==
  \E i \in Calls(w) :
    /\ IsCall(log[w][i], "get", "source")
    /\ log[w][i].res = "ok"
    /\ Member(log[w][i].obj.data, "connection", NilBytes).kind # "json"

C5_MalformedPayload ==
  \A w \in Workers :
    Malformed(w) =>
      /\ pc[w] = "idle"
      /\ result[w] = [Requeue |-> FALSE, RequeueAfter |-> 0, err |-> TRUE]
      /\ NoWrite(w)
      /\ Len(log[w]) = 2

\* a run has read a record with no payload under connection, all secrets
\* still absent
C5_Witness ==
  /\ pc["w1"] = "idle"
  /\ Malformed("w1")
  /\ "connection" \notin DOMAIN log["w1"][2].obj.data
  /\ secrets = [id \in SecretIds |-> Absent]

(***************************************************************************)
(* C6.  Error abort: a store call of a run that fails with another error   *)
(* than not-found is the last call of that run, which returns Error with   *)
(* it.                                                                     *)
(***************************************************************************)
C6_ErrorAbort ==
  \A w \in Workers : \A i \in Calls(w) :
    log[w][i].res = "err" =>
      /\ i = Len(log[w])
      /\ pc[w] = "idle"
      /\ result[w] = [Requeue |-> FALSE, RequeueAfter |-> 0, err |-> TRUE]

(***************************************************************************)
(* The payload a run read and the ConnectionDescriptor parsed from it.     *)
(***************************************************************************)
\* the run of w has read a CredentialSourceRecord and parsed its payload
Parsed(w) ==
  /\ Len(log[w]) >= 2
  /\ IsCall(log[w][2], "get", "source")
  /\ log[w][2].res = "ok"
  /\ Member(log[w][2].obj.data, "connection", NilBytes).kind = "json"

DataRead(w) == Binding(log[w][2].obj.data.connection.value)

IsSecretWrite(c, name) == IsWrite(c) /\ c.kind = "secret" /\ c.key.name = name

(***************************************************************************)
(* C7.  Certificate decode error: a run that has parsed a payload whose    *)
(* certificate_base64 is no valid base64 never writes the secret           *)
(* postgres.certificate-data, and when it returns, it returns an error.    *)
(***************************************************************************)
C7_CertificateDecodeError ==
  \A w \in Workers :
    (Parsed(w) /\ DecodeString(DataRead(w).Postgres.Certificate.CertificateBase64).err) =>
      /\ \A i \in Calls(w) :
           ~(IsSecretWrite(log[w][i], "postgres.certificate-data") /\ log[w][i].res = "ok")
      /\ Returned(w) => result[w].err

(***************************************************************************)
(* C8.  Unconditional secret upsert.  As stated: a run that has parsed the *)
(* payload and ended without a store error has written each of the four    *)
(* secrets of its namespace exactly once, by a create when the secret was  *)
(* absent and by an update otherwise, and each holds the value derived     *)
(* from the payload.                                                       *)
(***************************************************************************)
SecretsUpserted(w) ==
  \A n \in 1..4 :
    LET key == NamespacedName(SecretNames[n], req[w].namespace)
        writes == {i \in Calls(w) : IsSecretWrite(log[w][i], SecretNames[n])}
    IN  /\ Cardinality(writes) = 1
        /\ \A i \in writes :
             /\ log[w][i].key = key
             /\ log[w][i].res = "ok"
             /\ log[w][i].op = (IF log[w][i].old = Absent THEN "create" ELSE "update")
        /\ secrets[key] # Absent
        /\ secrets[key].stringData =
             [key |-> SecretKeys[n], value |-> secretValue(n, DataRead(w))]

Ended(w) == pc[w] = "idle" /\ result[w] # Running

C8_Original ==
  \A w \in Workers :
    (Ended(w) /\ Parsed(w) /\ NoStoreError(log[w])) => SecretsUpserted(w)

(***************************************************************************)
(* C8, amended: the same for the runs whose payload lists at least one     *)
(* endpoint.  The value derived for postgres.certificate-data is what the  *)
(* decoding of certificate_base64 yields.                                  *)
(***************************************************************************)
C8_SecretUpsert ==
  \A w \in Workers :
    (Ended(w) /\ Parsed(w) /\ NoStoreError(log[w])
       /\ DataRead(w).Postgres.Hosts # << >>) => SecretsUpserted(w)

\* a run has overwritten the four secrets, which held the values of another
\* payload, and has returned
C8_Witness ==
  /\ Returned("w1")
  /\ Parsed("w1")
  /\ NoStoreError(log["w1"])
  /\ \A n \in 1..4 : \E i \in Calls("w1") :
       /\ IsSecretWrite(log["w1"][i], SecretNames[n])
       /\ log["w1"][i].op = "update"
       /\ log["w1"][i].old # log["w1"][i].obj
  /\ secrets[NamespacedName("postgres.url", req["w1"].namespace)].stringData.value =
       "jdbc:postgresql://db.local:5432/appdb?sslmode=verify-full&sslrootcert=/cloud-postgres-cert"

(***************************************************************************)
(* C9.  Init job upsert: after a run that has written the InitJobRecord    *)
(* and returned without a store error, the stored InitJobRecord is the     *)
(* descriptor built from the DesiredStateObject of that run, and it is     *)
(* what the run wrote.                                                     *)
(***************************************************************************)
C9_InitJobUpsert ==
  \A w \in Workers : \A i \in Calls(w) :
    (Returned(w) /\ NoStoreError(log[w]) /\ IsWrite(log[w][i]) /\ log[w][i].kind = "job") =>
      /\ log[w][i].obj = createPostgresJob(req[w].namespace)
      /\ job = createPostgresJob(req[w].namespace)

(***************************************************************************)
(* C10.  Init job race: with DesiredStateObjects reconciled concurrently,  *)
(* the stored InitJobRecord is at any time the descriptor of the           *)
(* DesiredStateObject whose run wrote the record last.                     *)
(***************************************************************************)
C10_LastWriterWins ==
  job # Absent =>
    /\ lastJobWriter # NoObject
    /\ job = createPostgresJob(lastJobWriter.namespace)

(***************************************************************************)
(* C11.  Concurrent reconcile of the same object: once two invocations for *)
(* one DesiredStateObject have both ended, however their store calls       *)
(* interleaved, the secrets, the init job and the workloads are what two   *)
(* invocations one after the other make of the resources there were before *)
(* the first: the secrets hold the values of the payload, the init job is  *)
(* the stored one or else the descriptor of this namespace, the workload   *)
(* is the stored one with replica count spec.size or else the one built    *)
(* for the object.  The runs that follow one another are among the         *)
(* interleavings.                                                          *)
(***************************************************************************)
\* what one invocation for o makes of the derived resources d, with the
\* DesiredStateObject and the credential as stored
RunOutcome(d, o) ==
  LET inst == instances[o]
      b == Binding(sources[CredKey(o)].data.connection.value)
      n == IF b.Postgres.Hosts = << >> THEN 3 ELSE 4
      m == [name |-> o.name, namespace |-> o.namespace, size |-> inst.size,
            postgresSecretName |-> inst.postgresSecretName]
  IN  << [id \in SecretIds |->
            IF id.namespace = o.namespace /\ \E i \in 1..n : SecretNames[i] = id.name
              THEN LET i == CHOOSE i \in 1..n : SecretNames[i] = id.name
                   IN  createSecret(id.name, id.namespace, SecretKeys[i], secretValue(i, b))
              ELSE d[1][id]],
         IF n = 4 /\ d[2] = Absent THEN createPostgresJob(o.namespace) ELSE d[2],
         [r \in Requests |->
            IF n = 4 /\ r = o
              THEN IF d[3][r] = Absent
                     THEN deploymentForMemcached(m)
                     ELSE [d[3][r] EXCEPT !.replicas = inst.size]
              ELSE d[3][r]] >>

BothEnded == runs = 2 /\ \A w \in Workers : Ended(w) /\ req[w] = req["w1"]

C11_SameObject ==
  BothEnded => derived = RunOutcome(RunOutcome(origin, req["w1"]), req["w1"])

\* both invocations read the workload with 1 replica where 2 are wanted; one
\* updated it, the update of the other was refused
C11_Witness ==
  /\ BothEnded
  /\ origin[3][req["w1"]] # Absent
  /\ origin[3][req["w1"]].replicas = 1
  /\ deployments[req["w1"]].replicas = 2
  /\ \E i \in Calls("w1") :
       IsCall(log["w1"][i], "update", "deployment") /\ log["w1"][i].res = "err"
  /\ \E i \in Calls("w2") :
       IsCall(log["w2"][i], "update", "deployment") /\ log["w2"][i].res = "ok"

(***************************************************************************)
(* C12.  Replica convergence.  As stated, for every DesiredStateObject:    *)
(* with triggers delivered as they fall due and a store that does not      *)
(* fail, from some point on the replica count of the WorkloadRecord, if    *)
(* there is one, equals spec.size for good.                                *)
(***************************************************************************)
Drift(o) == deployments[o] # Absent /\ deployments[o].replicas # instances[o].size

C12_Original == <>[](~Drift(App1))

(***************************************************************************)
(* C12, amended: when from some point on the CredentialSourceRecord is     *)
(* present with a payload that parses and lists at least one endpoint,     *)
(* then from some point on there is a WorkloadRecord and its replica count *)
(* equals spec.size for good.                                              *)
(***************************************************************************)
Usable(o) ==
  LET c == sources[CredKey(o)]
      bytes == Member(c.data, "connection", NilBytes)
  IN  /\ c # Absent
      /\ bytes.kind = "json"
      /\ Binding(bytes.value).Postgres.Hosts # << >>

Scaled(o) == deployments[o] # Absent /\ deployments[o].replicas = instances[o].size

C12_ReplicaConvergence == (<>[]Usable(App1)) => <>[]Scaled(App1)

\* a workload that had 1 replica has been scaled to the 2 that are wanted
C12_Witness ==
  /\ Scaled(App1)
  /\ instances[App1].size = 2
  /\ origin[3][App1] # Absent
  /\ origin[3][App1].replicas = 1
  /\ result["w1"] = [Requeue |-> FALSE, RequeueAfter |-> 60, err |-> FALSE]

(***************************************************************************)
(* C13.  Projection correctness and endpoint tie-break: in a run that has  *)
(* parsed a payload with a certificate that decodes and with at least one  *)
(* endpoint, every secret written carries, by its name, the raw username,  *)
(* the raw password, the decoded certificate, or the URL                   *)
(* jdbc:postgresql://{host}:{port}/{database}?sslmode=verify-full&         *)
(* sslrootcert=/cloud-postgres-cert of the first endpoint, whatever        *)
(* endpoints follow it.  For username u, password p, certificate           *)
(* base64("CERT"), endpoints db.local:5432 and b:2 and database appdb the  *)
(* values are u, p, CERT and the URL of db.local:5432.                     *)
(***************************************************************************)
\* the payload as the run read it, before it was parsed
DocRead(w) == log[w][2].obj.data.connection.value.postgres

WellFormed(w) ==
  /\ Parsed(w)
  /\ ~DecodeString(DataRead(w).Postgres.Certificate.CertificateBase64).err
  /\ DataRead(w).Postgres.Hosts # << >>

Projected(name, pg) ==
  CASE name = "postgres.username" -> pg.authentication.username
    [] name = "postgres.password" -> pg.authentication.password
    [] name = "postgres.certificate-data" ->
         BytesToString(DecodeString(pg.certificate.certificate_base64).bytes)
    [] name = "postgres.url" ->
         "jdbc:postgresql://" \o pg.hosts[1].hostname \o ":" \o ToString(pg.hosts[1].port)
           \o "/" \o pg.database \o "?sslmode=verify-full&sslrootcert=/cloud-postgres-cert"

Example(name) ==
  CASE name = "postgres.username" -> "u"
    [] name = "postgres.password" -> "p"
    [] name = "postgres.certificate-data" -> "CERT"
    [] name = "postgres.url" ->
         "jdbc:postgresql://db.local:5432/appdb?sslmode=verify-full&sslrootcert=/cloud-postgres-cert"

C13_Projection ==
  \A w \in Workers : \A i \in Calls(w) :
    (WellFormed(w) /\ IsWrite(log[w][i]) /\ log[w][i].kind = "secret") =>
      /\ log[w][i].obj.stringData.value = Projected(log[w][i].key.name, DocRead(w))
      /\ Json(log[w][2].obj.data.connection.value) = Bind1 =>
           log[w][i].obj.stringData.value = Example(log[w][i].key.name)

\* a run has written the four secrets of the payload with two endpoints,
\* and the store holds the example's values
C13_Witness ==
  /\ Returned("w1")
  /\ WellFormed("w1")
  /\ Len(DocRead("w1").hosts) = 2
  /\ \A n \in 1..4 :
       /\ \E i \in Calls("w1") :
            IsSecretWrite(log["w1"][i], SecretNames[n]) /\ log["w1"][i].res = "ok"
       /\ secrets[NamespacedName(SecretNames[n], req["w1"].namespace)].stringData.value =
            Example(SecretNames[n])

(***************************************************************************)
(* C14.  Step ordering within a run: the writes of a run come in the order *)
(* postgres.username, postgres.password, postgres.certificate-data,        *)
(* postgres.url, init job, workload, and when a run makes the write of a   *)
(* step, it has made the writes of all earlier steps before, each once and *)
(* with success.  So a run that writes the workload has upserted the four  *)
(* secrets and the init job.                                               *)
(***************************************************************************)
Rank(c) ==
  CASE c.kind = "secret" -> CHOOSE n \in 1..4 : SecretNames[n] = c.key.name
    [] c.kind = "job" -> 5
    [] c.kind = "deployment" -> 6

C14_StepOrdering ==
  \A w \in Workers : \A i \in Calls(w) :
    IsWrite(log[w][i]) =>
      LET before == {j \in 1..(i - 1) : IsWrite(log[w][j])}
      IN  /\ Cardinality(before) = Rank(log[w][i]) - 1
          /\ \A j \in before :
               /\ Rank(log[w][j]) = Cardinality({h \in before : h <= j})
               /\ log[w][j].res = "ok"

\* a run has updated the workload after upserting the secrets and the job
C14_Witness ==
  /\ Returned("w1")
  /\ Cardinality({i \in Calls("w1") : IsWrite(log["w1"][i]) /\ log["w1"][i].res = "ok"}) = 6
  /\ IsCall(log["w1"][Len(log["w1"])], "update", "deployment")

(***************************************************************************)
(* C15.  Convergence to Done: when from some point on the                  *)
(* CredentialSourceRecord of the DesiredStateObject is present with a      *)
(* payload that parses and lists at least one endpoint, then, with         *)
(* triggers delivered as they fall due, a store that fails only a bounded  *)
(* number of times and spec.size changing no more, from some point on the  *)
(* four secrets, the init job and a workload with replica count spec.size  *)
(* are in the store, no run is under way and the last run returned Done.   *)
(***************************************************************************)
Complete(o) ==
  /\ \A n \in 1..4 : secrets[NamespacedName(SecretNames[n], o.namespace)] # Absent
  /\ job # Absent
  /\ Scaled(o)

C15_ConvergenceToDone ==
  (<>[]Usable(App1)) =>
    <>[](/\ Complete(App1)
         /\ pc["w1"] = "idle"
         /\ result["w1"] = [Requeue |-> FALSE, RequeueAfter |-> 0, err |-> FALSE])

\* starting with no derived resource, after a store failure, everything is
\* there and the last run returned Done
C15_Witness ==
  /\ origin = Unprovisioned
  /\ faults = 0
  /\ Complete(App1)
  /\ pc["w1"] = "idle"
  /\ result["w1"] = [Requeue |-> FALSE, RequeueAfter |-> 0, err |-> FALSE]

(***************************************************************************)
(* C16.  Deleted object: a run that finds no DesiredStateObject under the  *)
(* identity it was triggered for makes no other store call, so no create   *)
(* and no update (Reconcile has no delete), and returns Done: no requeue,  *)
(* no error.                                                               *)
(***************************************************************************)
ObjectMissing(w) ==
  \E i \in Calls(w) :
    IsCall(log[w][i], "get", "instance") /\ log[w][i].res = "notfound"

C16_DeletedObject ==
  \A w \in Workers :
    ObjectMissing(w) =>
      /\ pc[w] = "idle"
      /\ Len(log[w]) = 1
      /\ result[w] = [Requeue |-> FALSE, RequeueAfter |-> 0, err |-> FALSE]

\* the run for a deleted object has returned, and the resources derived for
\* it before are in the store
C16_Witness ==
  /\ pc["w1"] = "idle"
  /\ ObjectMissing("w1")
  /\ instances[req["w1"]] = Absent
  /\ deployments[req["w1"]] # Absent
  /\ job # Absent
  /\ \A n \in 1..4 : secrets[NamespacedName(SecretNames[n], req["w1"].namespace)] # Absent

(***************************************************************************)
(* C17.  Replica update frame: the WorkloadRecord a run writes to correct  *)
(* the replica count has the name, namespace, selector, pod template       *)
(* (labels and containers) and ownership reference of the record the run   *)
(* read, and after an accepted update so has the stored record.            *)
(***************************************************************************)
SameFrame(a, b) ==
  /\ a.name = b.name
  /\ a.namespace = b.namespace
  /\ a.selector = b.selector
  /\ a.template = b.template
  /\ a.ownerReferences = b.ownerReferences

C17_ReplicaUpdateFrame ==
  \A w \in Workers : \A i \in Calls(w) :
    IsCall(log[w][i], "update", "deployment") =>
      /\ i > 1
      /\ IsCall(log[w][i - 1], "get", "deployment")
      /\ log[w][i - 1].res = "ok"
      /\ SameFrame(log[w][i].obj, log[w][i - 1].obj)
      /\ log[w][i].obj.replicas # log[w][i - 1].obj.replicas
      /\ log[w][i].res = "ok" => SameFrame(deployments[log[w][i].key], log[w][i - 1].obj)

\* a run has changed the replica count of a workload, which is owned and
\* labelled as it was
C17_Witness ==
  \E i \in Calls("w1") :
    /\ Returned("w1")
    /\ IsCall(log["w1"][i], "update", "deployment")
    /\ log["w1"][i].res = "ok"
    /\ deployments[log["w1"][i].key].replicas # log["w1"][i].old.replicas
    /\ deployments[log["w1"][i].key].ownerReferences # {}
    /\ SameFrame(deployments[log["w1"][i].key], log["w1"][i].old)

(***************************************************************************)
(* C18.  Empty endpoint sequence: a run that has parsed a payload without  *)
(* endpoints never writes postgres.url, the init job or the workload; when *)
(* it has ended without a store error it has ended in the fault, after     *)
(* writing postgres.username, postgres.password and                        *)
(* postgres.certificate-data, each once and with success.                  *)
(***************************************************************************)
NoEndpoint(w) == Parsed(w) /\ DataRead(w).Postgres.Hosts = << >>

C18_EmptyEndpoints ==
  \A w \in Workers :
    NoEndpoint(w) =>
      /\ \A i \in Calls(w) : IsWrite(log[w][i]) => Rank(log[w][i]) <= 3
      /\ (Ended(w) /\ NoStoreError(log[w])) =>
           /\ result[w] = [fault |-> "panic"]
           /\ \A n \in 1..3 :
                Cardinality({i \in Calls(w) : IsSecretWrite(log[w][i], SecretNames[n])
                                                /\ log[w][i].res = "ok"}) = 1

\* the run has ended in the fault with three secrets in the store and no
\* postgres.url, no init job, no workload
C18_Witness ==
  /\ NoEndpoint("w1")
  /\ result["w1"] = [fault |-> "panic"]
  /\ \A n \in 1..3 : secrets[NamespacedName(SecretNames[n], req["w1"].namespace)] # Absent
  /\ secrets[NamespacedName("postgres.url", req["w1"].namespace)] = Absent
  /\ job = Absent
  /\ deployments[req["w1"]] = Absent

(***************************************************************************)
(* C19.  Decision characterisation.  As stated: every run that has ended   *)
(* has returned Done, immediate requeue, RequeueAfter 300 s, RequeueAfter  *)
(* 1 min or Error; RequeueAfter 300 s only when it found no                *)
(* CredentialSourceRecord, immediate requeue only when it created the      *)
(* WorkloadRecord, RequeueAfter 1 min only when it updated the replica     *)
(* count, Done only when it found no DesiredStateObject or when, its five  *)
(* upserts made with success, it read a WorkloadRecord with replica count  *)
(* spec.size.                                                              *)
(***************************************************************************)
LastCall(w) == log[w][Len(log[w])]

Characterised(w) ==
  LET d == result[w]
  IN  /\ "err" \in DOMAIN d
      /\ \/ d = [Requeue |-> FALSE, RequeueAfter |-> 0, err |-> TRUE]
         \/ /\ d = [Requeue |-> FALSE, RequeueAfter |-> 300, err |-> FALSE]
            /\ SourceMissing(w)
         \/ /\ d = [Requeue |-> TRUE, RequeueAfter |-> 0, err |-> FALSE]
            /\ IsCall(LastCall(w), "create", "deployment")
            /\ LastCall(w).res = "ok"
         \/ /\ d = [Requeue |-> FALSE, RequeueAfter |-> 60, err |-> FALSE]
            /\ IsCall(LastCall(w), "update", "deployment")
            /\ LastCall(w).res = "ok"
            /\ LastCall(w).obj.replicas # LastCall(w).old.replicas
         \/ /\ d = [Requeue |-> FALSE, RequeueAfter |-> 0, err |-> FALSE]
            /\ \/ ObjectMissing(w)
               \/ /\ IsCall(LastCall(w), "get", "deployment")
                  /\ LastCall(w).res = "ok"
                  /\ LastCall(w).obj.replicas = SizeRead(w)
                  /\ \A n \in 1..5 : \E i \in Calls(w) :
                       IsWrite(log[w][i]) /\ Rank(log[w][i]) = n /\ log[w][i].res = "ok"

WritesDerived(lg, c, id) ==
  /\ IsWrite(c)
  /\ c.kind = "secret"
  /\ c.res = "ok"
  /\ c.key = id
  /\ c.obj.name = id.name
  /\ c.obj.namespace = lg[1].key.namespace
  /\ id.namespace = lg[1].key.namespace
  /\ id.name \in {SecretNames[n] : n \in 1..4}
  /\ c.obj.stringData.value = Projected(id.name, lg[2].obj.data.connection.value.postgres)

HeldByLastWriter ==
  \A w \in Workers : \A i \in Calls(w) :
    (IsWrite(log[w][i]) /\ log[w][i].kind = "secret" /\ log[w][i].res = "ok") =>
      /\ WritesDerived(log[w], log[w][i], log[w][i].key)
      /\ secrets[log[w][i].key] = log[w][i].obj

OnlyWritten ==
  \A id \in SecretIds :
    secrets'[id] # secrets[id] =>
      \E w \in Workers :
        /\ Len(log'[w]) = Len(log[w]) + 1
        /\ WritesDerived(log'[w], log'[w][Len(log'[w])], id)
        /\ secrets'[id] = log'[w][Len(log'[w])].obj

C20_TenantCollision == [](HeldByLastWriter) /\ [][OnlyWritten]_vars

\* the run of one DesiredStateObject has replaced, in the namespace they
\* share, the four secrets written for the other by those of its own
\* credential
C20_Witness ==
  /\ Returned("w1")
  /\ req["w1"] = App2
  /\ \A n \in 1..4 : \E i \in Calls("w1") :
       /\ IsSecretWrite(log["w1"][i], SecretNames[n])
       /\ log["w1"][i].op = "update"
       /\ log["w1"][i].res = "ok"
       /\ log["w1"][i].old.stringData.value # log["w1"][i].obj.stringData.value
  /\ secrets[NamespacedName("postgres.username", "ns1")].stringData.value = "u2"

====
